---- MODULE Spec2Model ----
(***************************************************************************)
(* A model of stypox/arg-parser.  The repository holds three generations   *)
(* of the parser, and each is a value of the variable `variant`:           *)
(*   "Tuple"  - include/stypox/argparser.hpp lines 1-497: OptionBase,      *)
(*              SwitchOption, ManualOption, Option, ArgParser<Options...>  *)
(*   "Basic"  - include/stypox/argparser.hpp lines 879-1292: Option<T>     *)
(*              and BasicArgParser<IntType, FloatType, TextType>           *)
(*   "Legacy" - src/argparser.h: Argument<T> and the first BasicArgParser  *)
(* Strings are sequences of one-character strings.  Decimal values are     *)
(* counted in tenths (1.5 is 15).  The integer and floating types are      *)
(* scaled down to a few bits, keeping their order: int is narrower than    *)
(* long long, float is narrower than long double.                          *)
(***************************************************************************)
EXTENDS Integers, Sequences, FiniteSets

(* ------------------------------ bounds -------------------------------- *)

\* Width in bits of the model's long long / unsigned long long.
LLBits == 8
\* Width in bits of the model's int / unsigned.
IntBits == 5
\* Largest float, in tenths (FLT_MAX scaled down).
FloatMaxTenths == 99
\* Largest long double, in tenths (LDBL_MAX scaled down).
LDMaxTenths == 999
\* Most option tokens handed to one parse call.
MaxArgs == 2
\* Most calls (parse, validate, reset) made on one parser.
MaxOps == 3

(* --------------------------- integer types ---------------------------- *)

RECURSIVE Pow2(_)
Pow2(n) == IF n = 0 THEN 1 ELSE 2 * Pow2(n - 1)

IntTypes == {"int", "unsigned", "longlong", "ulonglong"}

IsSigned(T) == T \in {"int", "longlong"}

Bits(T) == IF T \in {"int", "unsigned"} THEN IntBits ELSE LLBits

\* std::numeric_limits<T>::min() and max() of an integral type.
NumericMin(T) == IF IsSigned(T) THEN -Pow2(Bits(T) - 1) ELSE 0
NumericMax(T) == IF IsSigned(T) THEN Pow2(Bits(T) - 1) - 1 ELSE Pow2(Bits(T)) - 1

\* Conversion of an integer to the integral type T: modulo 2^Bits(T).
NarrowTo(T, n) ==
    IF IsSigned(T) /\ n % Pow2(Bits(T)) > NumericMax(T)
    THEN (n % Pow2(Bits(T))) - Pow2(Bits(T))
    ELSE n % Pow2(Bits(T))

(* ------------------------------ strings ------------------------------- *)

\* A local variable of the code: e is computed once and named in F.
With(e, F(_)) == F(e)

Digits == <<"0", "1", "2", "3", "4", "5", "6", "7", "8", "9">>

IsDigit(c) == \E i \in 1..10 : Digits[i] = c

DigitVal(c) == (CHOOSE i \in 1..10 : Digits[i] = c) - 1

\* isspace of <cctype>, for the characters the inputs use.
IsSpace(c) == c = " "

RECURSIVE NatToString(_)
NatToString(n) ==
    IF n < 10 THEN <<Digits[n + 1]>>
    ELSE NatToString(n \div 10) \o <<Digits[(n % 10) + 1]>>

\* std::to_string of an integer: its decimal string.
to_string(n) == IF n < 0 THEN <<"-">> \o NatToString(-n) ELSE NatToString(n)

\* The decimal string of a value given in tenths, with one fractional digit.
TenthsToString(t) ==
    With(IF t < 0 THEN -t ELSE t, LAMBDA a :
        (IF t < 0 THEN <<"-">> ELSE <<>>)
            \o NatToString(a \div 10) \o <<".">> \o <<Digits[(a % 10) + 1]>>)

\* How many characters of s, from position i on, satisfy the test P.
RECURSIVE RunLength(_, _, _)
RunLength(P(_), s, i) ==
    IF i <= Len(s) /\ P(s[i]) THEN 1 + RunLength(P, s, i + 1) ELSE 0

\* The value of the k digits of s that start at position i.
RECURSIVE DigitsValue(_, _, _)
DigitsValue(s, i, k) ==
    IF k = 0 THEN 0
    ELSE 10 * DigitsValue(s, i, k - 1) + DigitVal(s[i + k - 1])

\* The prefix of s that strtoll, strtoull and strtold read as an integer:
\* white space, an optional sign, digits.  `used` is 0 when no digit follows.
ScanInteger(s) ==
    With(RunLength(IsSpace, s, 1), LAMBDA ws :
    With(IF ws < Len(s) /\ s[ws + 1] \in {"+", "-"} THEN 1 ELSE 0, LAMBDA sgn :
    With(RunLength(IsDigit, s, ws + sgn + 1), LAMBDA k :
        [neg    |-> sgn = 1 /\ s[ws + 1] = "-",
         first  |-> ws + sgn + 1,
         digits |-> k,
         mag    |-> DigitsValue(s, ws + sgn + 1, k),
         used   |-> IF k = 0 THEN 0 ELSE ws + sgn + k])))

\* std::strtoll(s, &end, 10): the value saturates at LLONG_MIN / LLONG_MAX
\* (errno = ERANGE, which is `erange`), `used` is end - s.
strtoll(s) ==
    With(ScanInteger(s), LAMBDA sc :
    With(IF sc.neg THEN -sc.mag ELSE sc.mag, LAMBDA v :
        [val    |-> IF v > NumericMax("longlong") THEN NumericMax("longlong")
                    ELSE IF v < NumericMin("longlong") THEN NumericMin("longlong")
                    ELSE v,
         used   |-> sc.used,
         erange |-> sc.used > 0 /\ (v > NumericMax("longlong") \/ v < NumericMin("longlong"))]))

\* std::strtoull(s, &end, 10): the magnitude saturates at ULLONG_MAX; a minus
\* sign negates the result in the unsigned type.
strtoull(s) ==
    With(ScanInteger(s), LAMBDA sc :
        [val    |-> IF sc.mag > NumericMax("ulonglong") THEN NumericMax("ulonglong")
                    ELSE IF sc.neg THEN NarrowTo("ulonglong", -sc.mag)
                    ELSE sc.mag,
         used   |-> sc.used,
         erange |-> sc.used > 0 /\ sc.mag > NumericMax("ulonglong")])

\* std::strtold(s, &end) on decimal literals: white space, an optional sign,
\* digits, an optional point and digits.  The value is in tenths; the inputs
\* carry at most one fractional digit.  Beyond LDBL_MAX the result is
\* HUGE_VALL with errno = ERANGE.
strtold(s) ==
    With(ScanInteger(s), LAMBDA sc :
    With(sc.first + sc.digits, LAMBDA dot :
    With(dot <= Len(s) /\ s[dot] = ".", LAMBDA hasPt :
    With(IF hasPt THEN RunLength(IsDigit, s, dot + 1) ELSE 0, LAMBDA fk :
    With(10 * sc.mag + (IF fk > 0 THEN DigitVal(s[dot + 1]) ELSE 0), LAMBDA mag :
        [val    |-> IF sc.neg THEN -mag ELSE mag,
         used   |-> IF sc.digits + fk = 0 THEN 0
                    ELSE IF hasPt THEN dot + fk
                    ELSE dot - 1,
         erange |-> sc.digits + fk > 0 /\ mag > LDMaxTenths])))))

\* What std::stoll and std::stold make of the result r of strtoll /
\* strtold: std::invalid_argument when nothing converted, std::out_of_range
\* on ERANGE.
StdThrow(r) ==
    IF r.used = 0 THEN [exc |-> "invalid_argument", val |-> 0, used |-> 0]
    ELSE IF r.erange THEN [exc |-> "out_of_range", val |-> 0, used |-> 0]
    ELSE [exc |-> "", val |-> r.val, used |-> r.used]

\* std::stoll(str, &pos)
stoll(s) == StdThrow(strtoll(s))

\* std::stold(str, &pos)
stold(s) == StdThrow(strtold(s))

(* ------------------------- option declarations ------------------------ *)

\* An option as declared: name, kind ("switch", "int", "float", "text" or
\* "manual"), the accepted arguments, required, the default (the value the
\* output variable starts with), the value a switch sets, the validity
\* checker and, for an integer option, the destination type.
Decl(name, kind, arguments, required, default, checker, itype) ==
    [name |-> name, kind |-> kind, arguments |-> arguments,
     required |-> required, default |-> default, valueWhenSet |-> TRUE,
     validityChecker |-> checker, itype |-> itype]

\* The validity checkers the declarations use: the default one, which
\* accepts everything, and the example's 0 <= v <= 1 (v in tenths).
ValidityChecker(checker, v) ==
    IF checker = "unit" THEN 0 <= v /\ v <= 10 ELSE TRUE

\* The outputs of the options: value and seen flag by position; `assigned`
\* records, beside them, which options a token was matched to and converted
\* for since construction or the last reset.
OptState(value, seen, assigned) ==
    [value |-> value, seen |-> seen, assigned |-> assigned]

(* ------------------------------ matching ------------------------------ *)

\* arg.size() >= argument.size() && arg.substr(0, argument.size()) == argument
StartsWith(arg, argument) ==
    Len(arg) >= Len(argument) /\ SubSeq(arg, 1, Len(argument)) = argument

\* arg.size() > argument.size() && arg.substr(0, argument.size()) == argument
StartsWithMore(arg, argument) ==
    Len(arg) > Len(argument) /\ SubSeq(arg, 1, Len(argument)) = argument

\* arg.substr(n)
Substr(arg, n) == SubSeq(arg, n + 1, Len(arg))

\* std::find_if over the arguments: the position of the first one that
\* satisfies P with arg, or 0 for end().
FindIf(P(_, _), arguments, arg) ==
    With({i \in 1..Len(arguments) : P(arg, arguments[i])}, LAMBDA hits :
        IF hits = {} THEN 0 ELSE CHOOSE i \in hits : \A j \in hits : i <= j)

\* std::find(arguments.begin(), arguments.end(), arg) != arguments.end()
Contains(arguments, arg) == \E i \in 1..Len(arguments) : arguments[i] = arg

(* -------------------- Tuple: OptionBase and its kinds ------------------ *)

\* OptionBase::updateAlreadySeen without its check: a repeated option is
\* silently assigned again.
updateAlreadySeen_unchecked(seen) == [err |-> "", seen |-> TRUE]

\* OptionBase::updateAlreadySeen
updateAlreadySeen(seen) ==
    IF seen THEN [err |-> "RepeatedOptionError", seen |-> seen]
    ELSE [err |-> "", seen |-> TRUE]

\* numeric_limits<float>::min() is the smallest positive float, which lies
\* between 0 and one tenth: result < min() holds of 0 and of every negative.
BelowFloatMin(v) == v <= 0

\* The end of every numeric branch of argumentFromString: the characters
\* used are compared with the length, then the value with the limits.
CheckedResult(used, len, val, outOfRange) ==
    IF used # len THEN [err |-> "SyntaxError", val |-> 0]
    ELSE IF outOfRange THEN [err |-> "RangeError", val |-> 0]
    ELSE [err |-> "", val |-> val]

\* argumentFromString<T>(argValue, argName, originalArg)
argumentFromString(T, argValue) ==
    IF T \in IntTypes /\ IsSigned(T) THEN
        With(strtoll(argValue), LAMBDA r :
            CheckedResult(r.used, Len(argValue), r.val,
                          r.val < NumericMin(T) \/ r.val > NumericMax(T)))
    ELSE IF T \in IntTypes THEN
        With(RunLength(IsSpace, argValue, 1), LAMBDA ws :
            IF ws < Len(argValue) /\ argValue[ws + 1] = "-"
            THEN [err |-> "RangeError", val |-> 0]
            ELSE With(strtoull(Substr(argValue, ws)), LAMBDA r :
                    CheckedResult(ws + r.used, Len(argValue), r.val,
                                  r.val < NumericMin(T) \/ r.val > NumericMax(T))))
    ELSE IF T = "float" THEN
        With(strtold(argValue), LAMBDA r :
            CheckedResult(r.used, Len(argValue), r.val,
                          BelowFloatMin(r.val) \/ r.val > FloatMaxTenths))
    ELSE [err |-> "", val |-> argValue]

\* The conversion function of the example's ManualOption "person": the
\* fragment is `name;age`; anything else is rejected by the function itself.
assignerFunctor(str) ==
    With(FindIf(LAMBDA a, c : c = ";", str, <<>>), LAMBDA semi :
    With(stoll(Substr(str, semi)), LAMBDA age :
        IF semi = 0 \/ age.exc # "" \/ age.val > NumericMax("int") \/ age.val < NumericMin("int")
        THEN [err |-> "CustomConversionError", val |-> <<>>]
        ELSE [err |-> "", val |-> <<SubSeq(str, 1, semi - 1), age.val>>]))

\* The destination type argumentFromString is instantiated with.
DestType(o) == IF o.kind = "int" THEN o.itype ELSE o.kind

\* The conversion with the function of a manual option never called: the
\* fragment is kept as the text it is.
TupleOption_convert_asText(o, frag) ==
    IF o.kind = "switch" THEN [err |-> "", val |-> o.valueWhenSet]
    ELSE IF o.kind = "manual" THEN [err |-> "", val |-> frag]
    ELSE argumentFromString(DestType(o), frag)

\* What the assign of each kind of option makes of the fragment that
\* follows the argument: the switch's constant, the manual option's
\* function, argumentFromString.
TupleOption_convert(o, frag) ==
    IF o.kind = "switch" THEN [err |-> "", val |-> o.valueWhenSet]
    ELSE IF o.kind = "manual" THEN assignerFunctor(frag)
    ELSE argumentFromString(DestType(o), frag)

\* The arguments search with starts-with for switches too.
TupleOption_find_prefix(o, arg) ==
    FindIf(StartsWith, o.arguments, arg)

\* The arguments search of SwitchOption::assign (std::find) and of
\* ManualOption::assign and Option::assign (std::find_if, starts-with).
TupleOption_find(o, arg) ==
    IF o.kind = "switch" THEN FindIf(LAMBDA a, b : a = b, o.arguments, arg)
    ELSE FindIf(StartsWith, o.arguments, arg)

\* SwitchOption::assign, ManualOption::assign and Option::assign on the
\* option o whose output holds `value` and whose flag is `seen`: `matched`
\* is the returned bool, `err` the exception thrown instead.
TupleOption_assign(o, value, seen, arg) ==
    With(TupleOption_find(o, arg), LAMBDA found :
        IF found = 0
        THEN [matched |-> FALSE, err |-> "", value |-> value, seen |-> seen]
        ELSE With(updateAlreadySeen(seen), LAMBDA u :
            IF u.err # ""
            THEN [matched |-> FALSE, err |-> u.err, value |-> value, seen |-> u.seen]
            ELSE With(TupleOption_convert(o, Substr(arg, Len(o.arguments[found]))), LAMBDA c :
                IF c.err # ""
                THEN [matched |-> FALSE, err |-> c.err, value |-> value, seen |-> u.seen]
                ELSE [matched |-> TRUE, err |-> "", value |-> c.val, seen |-> u.seen])))

\* Option::checkValidity left as OptionBase::checkValidity: the validity
\* checker is never called.
TupleOption_checkValidity_requiredOnly(o, value, seen) ==
    IF o.required /\ ~seen THEN "RequiredOptionError" ELSE ""

\* OptionBase::checkValidity, and Option::checkValidity for the kinds that
\* carry a validity checker.
TupleOption_checkValidity(o, value, seen) ==
    IF o.required /\ ~seen THEN "RequiredOptionError"
    ELSE IF o.kind \in {"int", "float", "text"} /\ ~ValidityChecker(o.validityChecker, value)
         THEN "InvalidValueError"
    ELSE ""

(* ----------------------- Basic: Option<T> ------------------------------ *)

\* The value of a float after `m_value = <long double>`: a long double
\* beyond FLT_MAX becomes an infinity, written as a value beyond every
\* long double.
FloatInf == 10 * (LDMaxTenths + 1)

FloatNarrow(v) ==
    IF v > FloatMaxTenths THEN FloatInf
    ELSE IF v < -FloatMaxTenths THEN -FloatInf
    ELSE v

\* Option<T>::operator== with the comparison of Argument<T>::operator==:
\* arg must be longer than the argument.
BasicOption_matches_strict(o, arg) ==
    IF o.kind = "switch" THEN Contains(o.arguments, arg)
    ELSE \E i \in 1..Len(o.arguments) : StartsWithMore(arg, o.arguments[i])

\* Option<T>::operator== of the Basic variant.
BasicOption_matches(o, arg) ==
    IF o.kind = "switch" THEN Contains(o.arguments, arg)
    ELSE \E i \in 1..Len(o.arguments) : StartsWith(arg, o.arguments[i])

\* The argValue that Option<T>::operator= and Argument<T>::operator= cut
\* from arg: what follows the first argument that arg starts with and is
\* longer than; empty when there is none.
ArgValue(o, arg) ==
    With(FindIf(StartsWithMore, o.arguments, arg), LAMBDA found :
        IF found = 0 THEN <<>> ELSE Substr(arg, Len(o.arguments[found])))

\* m_value = std::stoll(...) and m_value = std::stold(...): the conversion
\* of the result to the type of m_value.
StoredAs(o, val) ==
    IF o.kind = "int" THEN NarrowTo(o.itype, val) ELSE FloatNarrow(val)

\* The conversion branches of Option<T>::operator= of the Basic variant:
\* m_value is written as soon as std::stoll / std::stold returns, before
\* the count of used characters is compared.
BasicOption_convert(o, value, argValue) ==
    IF o.kind = "text" THEN [err |-> "", value |-> argValue]
    ELSE With(IF o.kind = "int" THEN stoll(argValue) ELSE stold(argValue), LAMBDA r :
        IF r.exc = "invalid_argument" THEN [err |-> "SyntaxError", value |-> value]
        ELSE IF r.exc = "out_of_range" THEN [err |-> "RangeError", value |-> value]
        ELSE IF r.used # Len(argValue) THEN [err |-> "SyntaxError", value |-> StoredAs(o, r.val)]
        ELSE [err |-> "", value |-> StoredAs(o, r.val)])

\* Option<T>::operator= of the Basic variant without the test for an
\* empty argValue.
BasicOption_assign_acceptsEmpty(o, value, seen, arg) ==
    IF seen THEN [err |-> "RepeatedOptionError", value |-> value, seen |-> seen]
    ELSE IF o.kind = "switch" THEN [err |-> "", value |-> TRUE, seen |-> TRUE]
    ELSE With(BasicOption_convert(o, value, ArgValue(o, arg)), LAMBDA c :
            [err |-> c.err, value |-> c.value, seen |-> TRUE])

\* Option<T>::operator= of the Basic variant.
BasicOption_assign(o, value, seen, arg) ==
    IF seen THEN [err |-> "RepeatedOptionError", value |-> value, seen |-> seen]
    ELSE IF o.kind = "switch" THEN [err |-> "", value |-> TRUE, seen |-> TRUE]
    ELSE With(ArgValue(o, arg), LAMBDA argValue :
        IF argValue = <<>> THEN [err |-> "MissingValueError", value |-> value, seen |-> TRUE]
        ELSE With(BasicOption_convert(o, value, argValue), LAMBDA c :
                [err |-> c.err, value |-> c.value, seen |-> TRUE]))

\* Option<T>::checkValidity of the Basic variant with the validity checker
\* applied to seen options only.
BasicOption_checkValidity_seenOnly(o, value, seen) ==
    IF o.required /\ ~seen THEN "RequiredOptionError"
    ELSE IF seen /\ ~ValidityChecker(o.validityChecker, value) THEN "InvalidValueError"
    ELSE ""

\* Option<T>::checkValidity of the Basic variant with the validity checker
\* called before the test for a required option.
BasicOption_checkValidity_checkerFirst(o, value, seen) ==
    IF ~ValidityChecker(o.validityChecker, value) THEN "InvalidValueError"
    ELSE IF o.required /\ ~seen THEN "RequiredOptionError"
    ELSE ""

\* Option<T>::checkValidity of the Basic variant.
BasicOption_checkValidity(o, value, seen) ==
    IF o.required /\ ~seen THEN "RequiredOptionError"
    ELSE IF ~ValidityChecker(o.validityChecker, value) THEN "InvalidValueError"
    ELSE ""

(* ----------------------- Legacy: Argument<T> --------------------------- *)

\* Argument<T>::operator==
Argument_matches(o, arg) ==
    IF o.kind = "switch" THEN Contains(o.arguments, arg)
    ELSE \E i \in 1..Len(o.arguments) : StartsWithMore(arg, o.arguments[i])

\* The conversion branches of Argument<T>::operator=: std::stoll and
\* std::stold are called without a position, and what they throw
\* (std::invalid_argument, std::out_of_range) leaves parse uncaught.
Argument_convert(o, value, argValue) ==
    IF o.kind = "text" THEN [err |-> "", value |-> argValue]
    ELSE With(IF o.kind = "int" THEN stoll(argValue) ELSE stold(argValue), LAMBDA r :
        IF r.exc = "invalid_argument" THEN [err |-> "SyntaxError", value |-> value]
        ELSE IF r.exc = "out_of_range" THEN [err |-> "RangeError", value |-> value]
        ELSE [err |-> "", value |-> StoredAs(o, r.val)])

\* Argument<T>::operator=
Argument_assign(o, value, seen, arg) ==
    IF seen THEN [err |-> "RepeatedOptionError", value |-> value, seen |-> seen]
    ELSE IF o.kind = "switch" THEN [err |-> "", value |-> TRUE, seen |-> TRUE]
    ELSE With(ArgValue(o, arg), LAMBDA argValue :
        IF argValue = <<>> THEN [err |-> "MissingValueError", value |-> value, seen |-> TRUE]
        ELSE With(Argument_convert(o, value, argValue), LAMBDA c :
                [err |-> c.err, value |-> c.value, seen |-> TRUE]))

(* ------------------------------ parsers ------------------------------- *)

\* operator== and operator= of the option class of a BasicArgParser.
Option_matches(v, o, arg) ==
    IF v = "Basic" THEN BasicOption_matches(o, arg) ELSE Argument_matches(o, arg)

Option_assign(v, o, value, seen, arg) ==
    IF v = "Basic" THEN BasicOption_assign(o, value, seen, arg)
    ELSE Argument_assign(o, value, seen, arg)

\* Whether the option o of a parser of variant v takes arg as its own: the
\* search in assign, or operator==.
Matches(v, o, arg) ==
    IF v = "Tuple" THEN TupleOption_find(o, arg) # 0 ELSE Option_matches(v, o, arg)

\* The outputs after option I took the result r of an assignment.
Store(st, I, r, converted) ==
    OptState([st.value EXCEPT ![I] = r.value],
             [st.seen EXCEPT ![I] = r.seen],
             [st.assigned EXCEPT ![I] = @ \/ converted])

\* ArgParser::assign<I>, were an option that was already seen passed over
\* like one that does not match.
RECURSIVE ArgParser_assign_fallsThrough(_, _, _, _)
ArgParser_assign_fallsThrough(opts, st, arg, I) ==
    IF I > Len(opts) THEN [opt |-> 0, err |-> "", st |-> st]
    ELSE With(TupleOption_assign(opts[I], st.value[I], st.seen[I], arg), LAMBDA r :
            IF r.err = "RepeatedOptionError"
            THEN ArgParser_assign_fallsThrough(opts, st, arg, I + 1)
            ELSE IF r.err # "" \/ r.matched
            THEN [opt |-> I, err |-> r.err, st |-> Store(st, I, r, r.matched)]
            ELSE ArgParser_assign_fallsThrough(opts, st, arg, I + 1))

\* ArgParser::assign<I>: the options are tried in tuple order until one
\* returns true or throws.  `opt` is that option, 0 when none matched.
RECURSIVE ArgParser_assign(_, _, _, _)
ArgParser_assign(opts, st, arg, I) ==
    IF I > Len(opts) THEN [opt |-> 0, err |-> "", st |-> st]
    ELSE With(TupleOption_assign(opts[I], st.value[I], st.seen[I], arg), LAMBDA r :
            IF r.err # "" \/ r.matched
            THEN [opt |-> I, err |-> r.err, st |-> Store(st, I, r, r.matched)]
            ELSE ArgParser_assign(opts, st, arg, I + 1))

\* findAssign, were the last option of the vector that matches taken.
findAssign_last(v, opts, st, arg, kind) ==
    With({i \in 1..Len(opts) : opts[i].kind = kind /\ Option_matches(v, opts[i], arg)},
         LAMBDA hits :
        IF hits = {} THEN [opt |-> 0, err |-> "", st |-> st]
        ELSE With(CHOOSE i \in hits : \A j \in hits : i >= j, LAMBDA found :
             With(Option_assign(v, opts[found], st.value[found], st.seen[found], arg),
                  LAMBDA r :
                [opt |-> found, err |-> r.err, st |-> Store(st, found, r, r.err = "")])))

\* BasicArgParser::findAssign on the vector of the options of one kind:
\* std::find with operator==, then operator= on the option found.
findAssign(v, opts, st, arg, kind) ==
    With({i \in 1..Len(opts) : opts[i].kind = kind /\ Option_matches(v, opts[i], arg)},
         LAMBDA hits :
        IF hits = {} THEN [opt |-> 0, err |-> "", st |-> st]
        ELSE With(CHOOSE i \in hits : \A j \in hits : i <= j, LAMBDA found :
             With(Option_assign(v, opts[found], st.value[found], st.seen[found], arg),
                  LAMBDA r :
                [opt |-> found, err |-> r.err, st |-> Store(st, found, r, r.err = "")])))

\* The order in which BasicArgParser::parse tries its four vectors.
KindOrder == <<"switch", "int", "float", "text">>

\* findAssign(m_boolOptions, arg) || findAssign(m_intOptions, arg) || ...
RECURSIVE findAssignAny(_, _, _, _, _)
findAssignAny(v, opts, st, arg, k) ==
    IF k > Len(KindOrder) THEN [opt |-> 0, err |-> "", st |-> st]
    ELSE With(findAssign(v, opts, st, arg, KindOrder[k]), LAMBDA r :
            IF r.opt # 0 THEN r ELSE findAssignAny(v, opts, st, arg, k + 1))

\* One token handed to the options of the parser.
Dispatch(v, opts, st, arg) ==
    IF v = "Tuple" THEN ArgParser_assign(opts, st, arg, 1)
    ELSE findAssignAny(v, opts, st, arg, 1)

\* The loop of parse, were a token that matches no option passed over.
RECURSIVE ParseLoop_skipUnknown(_, _, _, _, _)
ParseLoop_skipUnknown(v, opts, st, args, i) ==
    IF i > Len(args)
    THEN [st |-> st, err |-> "", opt |-> 0, tok |-> <<>>]
    ELSE With(Dispatch(v, opts, st, args[i]), LAMBDA d :
            IF d.err # ""
                THEN [st |-> d.st, err |-> d.err, opt |-> d.opt, tok |-> args[i]]
            ELSE IF i = Len(args)
                THEN [st |-> d.st, err |-> "", opt |-> d.opt, tok |-> args[i]]
            ELSE ParseLoop_skipUnknown(v, opts, d.st, args, i + 1))

\* The loop of parse, were the tokens after a failing one still dispatched
\* and the first error reported at the end.
RECURSIVE ParseLoop_keepGoing(_, _, _, _, _)
ParseLoop_keepGoing(v, opts, st, args, i) ==
    IF i > Len(args)
    THEN [st |-> st, err |-> "", opt |-> 0, tok |-> <<>>]
    ELSE With(Dispatch(v, opts, st, args[i]), LAMBDA d :
         With(IF d.err # ""
                THEN [st |-> d.st, err |-> d.err, opt |-> d.opt, tok |-> args[i]]
              ELSE IF d.opt = 0
                THEN [st |-> st, err |-> "UnknownArgumentError", opt |-> 0, tok |-> args[i]]
              ELSE [st |-> d.st, err |-> "", opt |-> d.opt, tok |-> args[i]], LAMBDA here :
            IF i = Len(args) THEN here
            ELSE With(ParseLoop_keepGoing(v, opts, here.st, args, i + 1), LAMBDA rest :
                    IF here.err # "" THEN [here EXCEPT !.st = rest.st] ELSE rest)))

\* The loop of parse over args[i..]: it ends at the first token that throws
\* or matches no option, or after the last one; `tok` is the token it ended
\* at and `opt` the option that took it.
RECURSIVE ParseLoop(_, _, _, _, _)
ParseLoop(v, opts, st, args, i) ==
    IF i > Len(args)
    THEN [st |-> st, err |-> "", opt |-> 0, tok |-> <<>>]
    ELSE With(Dispatch(v, opts, st, args[i]), LAMBDA d :
            IF d.err # ""
                THEN [st |-> d.st, err |-> d.err, opt |-> d.opt, tok |-> args[i]]
            ELSE IF d.opt = 0
                THEN [st |-> st, err |-> "UnknownArgumentError", opt |-> 0, tok |-> args[i]]
            ELSE IF i = Len(args)
                THEN [st |-> d.st, err |-> "", opt |-> d.opt, tok |-> args[i]]
            ELSE ParseLoop(v, opts, d.st, args, i + 1))

\* parse, were the program path dispatched like the tokens after it.
parse_dispatchesPath(v, opts, st, path, flag, args) ==
    IF flag /\ args = <<>>
    THEN [st |-> st, err |-> "EmptyArgumentListError", opt |-> 0, tok |-> <<>>,
          path |-> path]
    ELSE With(ParseLoop(v, opts, st, args, 1), LAMBDA r :
            [st |-> r.st, err |-> r.err, opt |-> r.opt, tok |-> r.tok,
             path |-> IF flag THEN [has |-> TRUE, path |-> args[1]]
                      ELSE [has |-> FALSE, path |-> <<>>]])

\* ArgParser::parse(first, last, firstArgumentIsExecutablePath) and
\* BasicArgParser::parse(args), whose flag is m_executablePath.has_value():
\* with the flag an empty list throws std::out_of_range and the first token
\* becomes the program path; the loop starts after it.  `path` is the
\* program path the parser held before the call.
parse(v, opts, st, path, flag, args) ==
    IF flag /\ args = <<>>
    THEN [st |-> st, err |-> "EmptyArgumentListError", opt |-> 0, tok |-> <<>>,
          path |-> path]
    ELSE With(ParseLoop(v, opts, st, args, IF flag THEN 2 ELSE 1), LAMBDA r :
            [st |-> r.st, err |-> r.err, opt |-> r.opt, tok |-> r.tok,
             path |-> IF flag THEN [has |-> TRUE, path |-> args[1]]
                      ELSE [has |-> FALSE, path |-> <<>>]])

\* The loop of parsePositional, were the tokens after the first one that
\* no option takes returned without being offered to the options.
RECURSIVE PositionalLoop_restReturned(_, _, _, _, _)
PositionalLoop_restReturned(opts, st, args, i, pos) ==
    IF i > Len(args)
    THEN [st |-> st, err |-> "", opt |-> 0, tok |-> <<>>, pos |-> pos]
    ELSE With(ArgParser_assign(opts, st, args[i], 1), LAMBDA d :
            IF d.err # ""
                THEN [st |-> d.st, err |-> d.err, opt |-> d.opt, tok |-> args[i], pos |-> <<>>]
            ELSE IF d.opt = 0
                THEN [st |-> st, err |-> "", opt |-> 0, tok |-> args[i],
                      pos |-> pos \o SubSeq(args, i, Len(args))]
            ELSE IF i = Len(args)
                THEN [st |-> d.st, err |-> "", opt |-> d.opt, tok |-> args[i], pos |-> pos]
            ELSE PositionalLoop_restReturned(opts, d.st, args, i + 1, pos))

\* The loop of parsePositional, were every token returned.
RECURSIVE PositionalLoop_all(_, _, _, _, _)
PositionalLoop_all(opts, st, args, i, pos) ==
    IF i > Len(args)
    THEN [st |-> st, err |-> "", opt |-> 0, tok |-> <<>>, pos |-> pos]
    ELSE With(ArgParser_assign(opts, st, args[i], 1), LAMBDA d :
            IF d.err # ""
                THEN [st |-> d.st, err |-> d.err, opt |-> d.opt, tok |-> args[i], pos |-> <<>>]
            ELSE IF i = Len(args)
                THEN [st |-> d.st, err |-> "", opt |-> d.opt, tok |-> args[i],
                      pos |-> Append(pos, args[i])]
            ELSE PositionalLoop_all(opts, d.st, args, i + 1, Append(pos, args[i])))

\* The loop of ArgParser::parsePositional over args[i..]: a token that no
\* option takes (m_doneAssigning still false) is appended to pos, the list
\* the call returns; an exception of an assignment ends the call, which then
\* returns nothing.
RECURSIVE PositionalLoop(_, _, _, _, _)
PositionalLoop(opts, st, args, i, pos) ==
    IF i > Len(args)
    THEN [st |-> st, err |-> "", opt |-> 0, tok |-> <<>>, pos |-> pos]
    ELSE With(ArgParser_assign(opts, st, args[i], 1), LAMBDA d :
         With(IF d.opt = 0 THEN Append(pos, args[i]) ELSE pos, LAMBDA pos2 :
            IF d.err # ""
                THEN [st |-> d.st, err |-> d.err, opt |-> d.opt, tok |-> args[i], pos |-> <<>>]
            ELSE IF i = Len(args)
                THEN [st |-> d.st, err |-> "", opt |-> d.opt, tok |-> args[i], pos |-> pos2]
            ELSE PositionalLoop(opts, d.st, args, i + 1, pos2)))

\* The vector a getter of the given kind searches: its own in the Basic
\* variant; in the Legacy variant getBool, getInt, getFloat and getText all
\* pass m_floatArgs.
GetVector(v, kind) == IF v = "Legacy" THEN "float" ELSE kind

\* The values a getter of the given kind can return for the value val it
\* found in the vector of kind from: val itself from its own vector; from
\* the decimals (tenths) a bool is val != 0 and an integer is val truncated,
\* any integer when the truncation is not in the range of the type.
ReturnAs(kind, from, val, T) ==
    IF kind = from THEN {val}
    ELSE IF kind = "switch" THEN {val # 0}
    ELSE IF (val \div 10) \in NumericMin(T)..NumericMax(T) /\ val >= 0 THEN {val \div 10}
    ELSE IF (-((-val) \div 10)) \in NumericMin(T)..NumericMax(T) /\ val < 0 THEN {-((-val) \div 10)}
    ELSE NumericMin(T)..NumericMax(T)

\* BasicArgParser::get(typeArgs, name) from position i on: the first option
\* of the searched vector whose name is `name`, or std::out_of_range.
RECURSIVE get(_, _, _, _, _, _)
get(v, opts, value, kind, name, i) ==
    IF i > Len(opts) THEN [err |-> "NameNotFoundError", opt |-> 0]
    ELSE IF opts[i].kind = GetVector(v, kind) /\ opts[i].name = name
        THEN [err |-> "", opt |-> i]
    ELSE get(v, opts, value, kind, name, i + 1)

\* The validity check of one option.
Option_checkValidity(v, o, value, seen) ==
    IF v = "Tuple" THEN TupleOption_checkValidity(o, value, seen)
    ELSE BasicOption_checkValidity(o, value, seen)

\* The position of option i in the order validate visits the options in:
\* tuple order, or the four vectors one after the other.
ScanRank(v, opts, i) ==
    IF v = "Tuple" THEN i
    ELSE Cardinality({j \in 1..Len(opts) :
            \E kj, ki \in 1..Len(KindOrder) :
                /\ opts[j].kind = KindOrder[kj] /\ opts[i].kind = KindOrder[ki]
                /\ (kj < ki \/ (kj = ki /\ j <= i))})

\* checkValidity<I> without the call of checkValidity<I+1>: the check of
\* the first option only.
checkValidityFrom_firstOnly(v, opts, value, seen, n) ==
    IF n > Len(opts) THEN [err |-> "", opt |-> 0]
    ELSE With(CHOOSE i \in 1..Len(opts) : ScanRank(v, opts, i) = n, LAMBDA i :
         With(Option_checkValidity(v, opts[i], value[i], seen[i]), LAMBDA e :
            IF e # "" THEN [err |-> e, opt |-> i] ELSE [err |-> "", opt |-> 0]))

\* ArgParser::checkValidity<I> and BasicArgParser::validate: the first
\* option in scan order whose check throws, and what it throws.
RECURSIVE checkValidityFrom(_, _, _, _, _)
checkValidityFrom(v, opts, value, seen, n) ==
    IF n > Len(opts) THEN [err |-> "", opt |-> 0]
    ELSE With(CHOOSE i \in 1..Len(opts) : ScanRank(v, opts, i) = n, LAMBDA i :
         With(Option_checkValidity(v, opts[i], value[i], seen[i]), LAMBDA e :
            IF e # "" THEN [err |-> e, opt |-> i]
            ELSE checkValidityFrom(v, opts, value, seen, n + 1)))

(* ------------------------ declarations and inputs ---------------------- *)

Variants == {"Tuple", "Basic", "Legacy"}

ArgHelpShort == <<"-", "h">>
ArgHelpLong  == <<"-", "-", "h", "e", "l", "p">>
ArgExit      == <<"-", "e", "=">>
ArgExitLong  == <<"-", "-", "e", "x", "i", "t", "=">>
ArgCake      == <<"-", "c", "=">>
ArgPrint     == <<"-", "p", "=">>
ArgPerson    == <<"-", "p", "=">>

\* The options of the README's examples: the switch help, the required
\* integer exit, the decimal cake with its 0..1 checker, the text print
\* and the manual option person.
HelpOption == Decl("help", "switch", <<ArgHelpShort, ArgHelpLong>>, FALSE, FALSE, "any", "int")

ExitOption(T) == Decl("exit", "int", <<ArgExit, ArgExitLong>>, TRUE, 0, "any", T)

CakeOption(default) == Decl("cake", "float", <<ArgCake>>, FALSE, default, "unit", "int")

PrintOption == Decl("print", "text", <<ArgPrint>>, FALSE, <<"n", "o">>, "any", "int")

PersonOption == Decl("person", "manual", <<ArgPerson>>, TRUE, <<>>, "any", "int")

\* The defaults cake is declared with, in tenths: one the checker accepts
\* and one it rejects.
CakeDefaults == {5, 15}

\* The parser of the examples.
Declarations == <<HelpOption, ExitOption("int"), CakeOption(5)>>

\* The parsers of one option: every kind, and every integer type the
\* variant can be instantiated with.
SingleDeclarations(v) ==
    {<<HelpOption>>, <<PrintOption>>}
        \cup {<<CakeOption(d)>> : d \in CakeDefaults}
        \cup {<<ExitOption(T)>> : T \in IntTypes}
        \cup (IF v = "Tuple" THEN {<<PersonOption>>} ELSE {})

UnknownTokens == {<<"-", "e">>}

\* The tokens the callers of the examples' parser pass: both spellings of
\* help, exit with a number, with a number followed by letters and with
\* nothing, cake inside and outside its checker's range, and a token no
\* option declares.
Tokens ==
    {ArgHelpShort, ArgHelpLong,
     ArgExit \o <<"5">>, ArgExit \o <<"1", "2", "a", "b", "c">>, ArgExit,
     ArgCake \o <<"0", ".", "5">>, ArgCake \o <<"1", ".", "5">>}
        \cup UnknownTokens

\* The fragments the callers of a one-option parser write: the literals at
\* and just beyond the limits of the destination type and of the type the
\* literal is parsed in, signs, white space, trailing characters, nothing.
WideFragments(o) ==
    CASE o.kind = "switch" -> {<<>>, <<"x">>}
      [] o.kind = "int"    ->
            {to_string(n) : n \in {NumericMax(o.itype), NumericMax(o.itype) + 1,
                                   NumericMin(o.itype), NumericMin(o.itype) - 1,
                                   NumericMax("longlong") + 1, NumericMin("longlong") - 1,
                                   NumericMax("ulonglong") + 1, 5}}
              \cup {<<"1", "2", "a", "b", "c">>, <<"a", "b", "c">>, <<>>, <<" ", "7">>,
                    <<"7", " ">>, <<"+", "3">>, <<"-">>, <<" ", "-", "1">>}
      [] o.kind = "float"  ->
            {TenthsToString(t) : t \in {5, 15, 0, -5, FloatMaxTenths, FloatMaxTenths + 1,
                                        LDMaxTenths, LDMaxTenths + 1}}
              \cup {<<"1", ".", "5", "x">>, <<"x">>, <<>>, <<"2">>, <<".">>}
      [] o.kind = "text"   -> {<<"h", "i">>, <<" ", "x">>, <<>>}
      [] OTHER             -> {<<"a", ";", "1">>, <<"a">>, <<>>, <<";">>}

\* The tokens a caller of a one-option parser passes: every argument of
\* the option followed by every fragment, every argument cut short of its
\* last character, and the tokens no option declares.
TokensOf(opts) ==
    UNION {{o.arguments[a] \o f : a \in 1..Len(o.arguments), f \in WideFragments(o)}
            \cup {SubSeq(o.arguments[a], 1, Len(o.arguments[a]) - 1) : a \in 1..Len(o.arguments)}
           : o \in {opts[i] : i \in 1..Len(opts)}}
      \cup UnknownTokens

\* The first element of an argument list that starts with the program path.
ProgramPath == <<"a">>

VARIABLES
    variant,    \* which generation of the parser this is
    options,    \* the declared options, in declaration order
    tokens,     \* the tokens the callers of this parser pass
    value,      \* value[i]: the output (m_output, m_value) of option i
    seen,       \* seen[i]: m_alreadySeen of option i
    assigned,   \* assigned[i]: a token was matched to option i and converted
    pathFlag,   \* Basic: firstArgumentIsExecutablePath given to the constructor
    execPath,   \* m_executableName / m_executablePath: [has, path]
    last,       \* the last call: [op, err, opt, tok]; tok is the token a parse
                \* call ended at, or the name a getter was asked for
    returned,   \* what the last call returned (<<>> for a void call)
    nops        \* calls made so far

vars == <<variant, options, tokens, value, seen, assigned, pathFlag, execPath, last,
          returned, nops>>

Call(op, err, opt, tok) == [op |-> op, err |-> err, opt |-> opt, tok |-> tok]

\* The state a constructor leaves.
Constructed(v, opts, flag, toks) ==
    /\ variant = v
    /\ options = opts
    /\ tokens = toks
    /\ value = [i \in 1..Len(opts) |-> opts[i].default]
    /\ seen = [i \in 1..Len(opts) |-> FALSE]
    /\ assigned = [i \in 1..Len(opts) |-> FALSE]
    /\ pathFlag = flag
    /\ execPath = [has |-> IF v = "Tuple" THEN FALSE ELSE flag, path |-> <<>>]
    /\ last = Call("init", "", 0, <<>>)
    /\ returned = <<>>
    /\ nops = 0

\* Legacy has no flag (argv[0] is always the path); Tuple takes it per call.
Flags(v) == IF v = "Basic" THEN BOOLEAN ELSE {v = "Legacy"}

Init ==
    \E v \in Variants :
        \E flag \in Flags(v) :
            Constructed(v, Declarations, flag, Tokens)

InitSingle ==
    \E v \in Variants :
        \E opts \in SingleDeclarations(v), flag \in Flags(v) :
            Constructed(v, opts, flag, TokensOf(opts))

\* The token lists of at most n tokens.
ArgLists(n) == UNION {[1..k -> tokens] : k \in 0..n}

\* parse(args): Tuple takes firstArgumentIsExecutablePath with the call,
\* Basic took it at construction, Legacy always reads argv[0] as the path.
DoParse(flag, args) ==
    /\ nops < MaxOps
    /\ variant = "Legacy" => flag /\ args # <<>>
    /\ variant = "Basic" => flag = pathFlag
    /\ nops' = nops + 1
    /\ returned' = <<>>
    /\ \E r \in {parse(variant, options, OptState(value, seen, assigned), execPath,
                        flag, args)} :
            /\ execPath' = r.path
            /\ value' = r.st.value
            /\ seen' = r.st.seen
            /\ assigned' = r.st.assigned
            /\ last' = Call("parse", r.err, r.opt, r.tok)
    /\ UNCHANGED <<variant, options, tokens, pathFlag>>

\* A program path that reads like a token of the option o.
SpellingPath(o) == o.arguments[1] \o (IF o.kind = "switch" THEN <<>> ELSE <<"5">>)

\* A call of parse with at most n option tokens, after a program path out
\* of paths when the flag is set, or with no token at all.
ParseUpTo(n, paths) ==
    \E flag \in BOOLEAN, l \in ArgLists(n) :
        \/ \E p \in IF flag THEN paths ELSE {ProgramPath} :
                DoParse(flag, IF flag THEN <<p>> \o l ELSE l)
        \/ flag /\ l = <<>> /\ DoParse(flag, l)

Parse == ParseUpTo(MaxArgs, {ProgramPath})

ParseSingle == ParseUpTo(1, {ProgramPath, SpellingPath(options[1])})

\* validate(), were the seen flags cleared once the checks are done.
Validate_clearsSeen ==
    /\ nops < MaxOps
    /\ variant # "Legacy"
    /\ nops' = nops + 1
    /\ returned' = <<>>
    /\ \E r \in {checkValidityFrom(variant, options, value, seen, 1)} :
            last' = Call("validate", r.err, r.opt, <<>>)
    /\ seen' = [i \in 1..Len(options) |-> FALSE]
    /\ UNCHANGED <<variant, options, tokens, value, assigned, pathFlag, execPath>>

\* validate(): ArgParser::validate and BasicArgParser::validate; the
\* Legacy parser has none.
Validate ==
    /\ nops < MaxOps
    /\ variant # "Legacy"
    /\ nops' = nops + 1
    /\ returned' = <<>>
    /\ \E r \in {checkValidityFrom(variant, options, value, seen, 1)} :
            last' = Call("validate", r.err, r.opt, <<>>)
    /\ UNCHANGED <<variant, options, tokens, value, seen, assigned, pathFlag, execPath>>

\* reset(): ArgParser::reset clears the executable name and the seen flags
\* (OptionBase::reset); BasicArgParser::reset calls Option<T>::reset, which
\* also restores the default value.
Reset ==
    /\ nops < MaxOps
    /\ variant # "Legacy"
    /\ nops' = nops + 1
    /\ returned' = <<>>
    /\ seen' = [i \in 1..Len(options) |-> FALSE]
    /\ assigned' = [i \in 1..Len(options) |-> FALSE]
    /\ value' = IF variant = "Basic"
                THEN [i \in 1..Len(options) |-> options[i].default]
                ELSE value
    /\ execPath' = IF variant = "Tuple" THEN [has |-> FALSE, path |-> <<>>] ELSE execPath
    /\ last' = Call("reset", "", 0, <<>>)
    /\ UNCHANGED <<variant, options, tokens, pathFlag>>

Next == Parse \/ Validate \/ Reset

Spec == Init /\ [][Next]_vars

\* The parsers of one option, given one token per call.
NextSingle == ParseSingle \/ Validate \/ Reset

SpecSingle == InitSingle /\ [][NextSingle]_vars

\* parsePositional(args, firstArgumentIsExecutablePath) of ArgParser.
DoParsePositional(flag, args) ==
    /\ nops < MaxOps
    /\ variant = "Tuple"
    /\ nops' = nops + 1
    /\ IF flag /\ args = <<>>
       THEN /\ UNCHANGED <<value, seen, assigned, execPath>>
            /\ returned' = <<>>
            /\ last' = Call("parsePositional", "EmptyArgumentListError", 0, <<>>)
       ELSE \E r \in {PositionalLoop(options, OptState(value, seen, assigned),
                                      args, IF flag THEN 2 ELSE 1, <<>>)} :
                /\ execPath' = IF flag THEN [has |-> TRUE, path |-> args[1]]
                               ELSE [has |-> FALSE, path |-> <<>>]
                /\ value' = r.st.value
                /\ seen' = r.st.seen
                /\ assigned' = r.st.assigned
                /\ returned' = r.pos
                /\ last' = Call("parsePositional", r.err, r.opt, r.tok)
    /\ UNCHANGED <<variant, options, tokens, pathFlag>>

\* A call of parsePositional with at most MaxArgs tokens, after the program
\* path when the flag is set, or with no token at all.
ParsePositional ==
    \E flag \in BOOLEAN, l \in ArgLists(MaxArgs) :
        \/ DoParsePositional(flag, IF flag THEN <<ProgramPath>> \o l ELSE l)
        \/ flag /\ l = <<>> /\ DoParsePositional(flag, l)

\* The tokens the callers of parsePositional pass: options of the examples'
\* parser, and two tokens that are no options.
PositionalTokens ==
    {ArgHelpShort, ArgExit \o <<"5">>, ArgExit \o <<"1", "2", "a", "b", "c">>,
     ArgCake \o <<"0", ".", "5">>, <<"f">>}
        \cup UnknownTokens

InitPositional == Constructed("Tuple", Declarations, FALSE, PositionalTokens)

NextPositional == ParsePositional \/ Validate \/ Reset

\* The examples' ArgParser, its tokens handed to parsePositional.
SpecPositional == InitPositional /\ [][NextPositional]_vars

\* The getter of each kind of option.
GetterOf == [switch |-> "getBool", int |-> "getInt", float |-> "getFloat", text |-> "getText"]

\* getBool(name), getInt(name), getFloat(name) and getText(name): the
\* ArgParser has none, and the Legacy getText does not compile (a decimal
\* does not convert to a text).
Get ==
    /\ nops < MaxOps
    /\ variant # "Tuple"
    /\ nops' = nops + 1
    /\ \E kind \in DOMAIN GetterOf :
       \E name \in {options[i].name : i \in 1..Len(options)} \cup {"none"} :
       \E r \in {get(variant, options, value, kind, name, 1)} :
            /\ variant = "Legacy" => kind # "text"
            /\ last' = Call(GetterOf[kind], r.err, r.opt, <<name>>)
            /\ IF r.err # "" THEN returned' = <<>>
               ELSE returned' \in ReturnAs(kind, options[r.opt].kind, value[r.opt],
                                           options[r.opt].itype)
    /\ UNCHANGED <<variant, options, tokens, value, seen, assigned, pathFlag, execPath>>

\* A second integer option called exit, and a text option called help.
ExitAgain == Decl("exit", "int", << <<"-", "x", "=">> >>, FALSE, 7, "any", "int")

HelpText == Decl("help", "text", << <<"-", "t", "=">> >>, FALSE, <<"h", "i">>, "any", "int")

\* A parser with options of every kind, a name declared twice in one kind
\* and a name declared in two kinds.
GetDeclarations == <<HelpOption, ExitOption("int"), ExitAgain, CakeOption(5), PrintOption, HelpText>>

\* Tokens that assign the options of that parser.
GetTokens ==
    {ArgHelpShort, ArgExit \o <<"5">>, <<"-", "x", "=", "3">>,
     ArgCake \o <<"1", ".", "5">>, ArgCake \o <<"0">>, ArgPrint \o <<"h", "i">>}

InitGet ==
    \E v \in {"Basic", "Legacy"} :
        \E flag \in Flags(v) :
            Constructed(v, GetDeclarations, flag, GetTokens)

NextGet == ParseSingle \/ Get \/ Reset

\* The parsers that have getters, given one token per call.
SpecGet == InitGet /\ [][NextGet]_vars

\* Options whose arguments overlap: a text option whose argument "-e" every
\* token of exit starts with, a second integer option that shares "-e=" with
\* exit, and a text option with the argument of the switch help.
ShadowText == Decl("shadow", "text", << <<"-", "e">> >>, FALSE, <<"n", "o">>, "any", "int")

ExitTwin == Decl("twin", "int", <<ArgExit, <<"-", "x", "=">> >>, FALSE, 7, "any", "int")

HelpShadow == Decl("helptext", "text", <<ArgHelpShort>>, FALSE, <<"n", "o">>, "any", "int")

\* The parsers of two options that both match some token.
OverlapDeclarations ==
    {<<ShadowText, ExitOption("int")>>, <<ExitOption("int"), ExitTwin>>, <<HelpShadow, HelpOption>>}

\* Tokens that one, both or none of the two options match.
OverlapTokens ==
    {ArgExit \o <<"5">>, ArgExit \o <<"7">>, <<"-", "x", "=", "3">>,
     ArgHelpShort, ArgHelpShort \o <<"x">>}
        \cup UnknownTokens

InitOverlap ==
    \E v \in Variants :
        \E opts \in OverlapDeclarations, flag \in Flags(v) :
            Constructed(v, opts, flag, OverlapTokens)

NextOverlap == Parse \/ Validate \/ Reset

\* The parsers whose options overlap.
SpecOverlap == InitOverlap /\ [][NextOverlap]_vars

\* cake declared required, with a default its validity checker rejects.
RequiredCake == Decl("cake", "float", <<ArgCake>>, TRUE, 15, "unit", "int")

\* Parsers in which validate can fail at more than one option: the decimal
\* cake declared before the required integer exit.
ValidateDeclarations ==
    {<<CakeOption(d), ExitOption("int")>> : d \in CakeDefaults}
        \cup {<<RequiredCake, ExitOption("int")>>}

\* Tokens for cake inside and outside its checker's range, and for exit.
ValidateTokens ==
    {ArgCake \o <<"0", ".", "5">>, ArgCake \o <<"1", ".", "5">>, ArgExit \o <<"5">>}

InitValidate ==
    \E v \in {"Tuple", "Basic"} :
        \E opts \in ValidateDeclarations, flag \in Flags(v) :
            Constructed(v, opts, flag, ValidateTokens)

\* The parsers that have validate, given one token per call.
SpecValidate == InitValidate /\ [][NextSingle]_vars

(* ------------------------------- claims ------------------------------- *)

\* The positions of the declared options.
OptionIds == 1..Len(options)

\* The outputs of the options as they are now.
Now == OptState(value, seen, assigned)

\* What a parse call on the options as they are now makes of the tokens args.
ParseNow(args) == ParseLoop(variant, options, Now, args, 1)

\* C1: after any sequence of parse, validate and reset calls, the seen flag
\* of an option is true if and only if a token was matched to it and
\* converted since construction or the last reset; a token whose assignment
\* fails leaves the flag false.
C1_SeenIffAssigned ==
    \A i \in OptionIds : seen[i] <=> assigned[i]

\* C2: a parse call that fails because the fragment of a token does not
\* convert leaves the value of the option it was for exactly as it was
\* before the token.  (An option that fails to convert was not assigned
\* earlier in the same call, or the token would have been a repetition: its
\* value before the token is its value before the call.)
C2_FailedConversionKeepsValue ==
    [][(/\ last'.op = "parse"
        /\ last'.err \in {"SyntaxError", "RangeError", "CustomConversionError"})
            => value'[last'.opt] = value[last'.opt]]_vars

\* C3: two tokens that both match an option, assigned one after the other
\* with no reset in between, make the second assignment fail with
\* RepeatedOptionError at that option: in a later parse call once the option
\* is assigned, and inside one parse call whose first token converts.
C3_RepeatedAssignmentFails ==
    \A i \in OptionIds : \A t2 \in tokens :
        Matches(variant, options[i], t2) =>
            /\ assigned[i] =>
                    /\ ParseNow(<<t2>>).err = "RepeatedOptionError"
                    /\ ParseNow(<<t2>>).opt = i
            /\ \A t1 \in tokens :
                    (Matches(variant, options[i], t1) /\ ParseNow(<<t1>>).err = "") =>
                        /\ ParseNow(<<t1, t2>>).err = "RepeatedOptionError"
                        /\ ParseNow(<<t1, t2>>).opt = i
                        /\ ParseNow(<<t1, t2>>).tok = t2

\* A parse call has just failed on a second token for an assigned option,
\* in the variant that keeps the flag in OptionBase.
C3_Witness ==
    /\ variant = "Tuple"
    /\ last.op = "parse"
    /\ last.err = "RepeatedOptionError"
    /\ assigned[last.opt]

C5_RequiredCheckedByValidate ==
    last.op = "validate" =>
        /\ (\E i \in OptionIds : options[i].required /\ ~assigned[i])
                => last.err = "RequiredOptionError"
        /\ (\A i \in OptionIds : options[i].required => assigned[i])
                => last.err # "RequiredOptionError"

\* C6: validate never fails at an optional option that has not been
\* assigned since the last reset, whatever its default value and validity
\* checker are.
C6_UnassignedOptionalAlwaysPasses ==
    (last.op = "validate" /\ last.err # "")
        => options[last.opt].required \/ assigned[last.opt]

\* C6, amended: the validity check of an optional option that has not been
\* assigned passes if and only if the value the option holds (its default,
\* or what an earlier call left) satisfies the validity checker, and
\* validate fails at such an option with InvalidValueError only.
C6_UnassignedOptionalCheckedOnCurrentValue ==
    variant # "Legacy" =>
        \A i \in OptionIds : (~options[i].required /\ ~assigned[i]) =>
            /\ Option_checkValidity(variant, options[i], value[i], seen[i]) = ""
                    <=> ValidityChecker(options[i].validityChecker, value[i])
            /\ (last.op = "validate" /\ last.err = "")
                    => ValidityChecker(options[i].validityChecker, value[i])
            /\ (last.op = "validate" /\ last.opt = i)
                    => /\ last.err = "InvalidValueError"
                       /\ ~ValidityChecker(options[i].validityChecker, value[i])

\* validate has just failed at an optional option no token was ever given
\* for: its default violates its validity checker.
C6_Witness ==
    /\ last.op = "validate"
    /\ last.err = "InvalidValueError"
    /\ ~options[last.opt].required
    /\ ~seen[last.opt]
    /\ ~assigned[last.opt]
    /\ value[last.opt] = options[last.opt].default

\* The arguments of option i.
ArgumentsOf(i) == {options[i].arguments[k] : k \in 1..Len(options[i].arguments)}

\* The last call was a parse whose last token went to option i, which had
\* not been seen before it.
ParsedFor(i) ==
    /\ last.op = "parse"
    /\ last.opt = i
    /\ last.err # "RepeatedOptionError"

\* The integers next to the limits of the integral type T and of the types
\* the literals are parsed in that T cannot hold.
OutOfRange(T) ==
    {n \in {NumericMax(T) + 1, NumericMin(T) - 1,
            NumericMax("longlong") + 1, NumericMin("longlong") - 1,
            NumericMax("ulonglong") + 1} : n < NumericMin(T) \/ n > NumericMax(T)}

\* C7: for every integer destination type, the decimal strings of its
\* maximum and of its minimum convert to that very value, and the decimal
\* string of an integer beyond them fails with RangeError: it is never
\* stored, wrapped or saturated.
C7_IntegerLimits ==
    \A i \in OptionIds : (options[i].kind = "int" /\ ParsedFor(i)) =>
        \A a \in ArgumentsOf(i) :
            /\ \A n \in {NumericMin(options[i].itype), NumericMax(options[i].itype)} :
                    last.tok = a \o to_string(n) => last.err = "" /\ value[i] = n
            /\ \A n \in OutOfRange(options[i].itype) :
                    last.tok = a \o to_string(n) => last.err = "RangeError"

\* C8: an integer or decimal fragment that starts as a number and ends in a
\* character that is no digit ("12abc", "1.5x", "7 ") fails with SyntaxError:
\* it is not accepted as its numeric prefix.
C8_TrailingCharactersRejected ==
    \A i \in OptionIds : (options[i].kind \in {"int", "float"} /\ ParsedFor(i)) =>
        \A a \in ArgumentsOf(i), f \in WideFragments(options[i]) :
            (/\ last.tok = a \o f
             /\ f # <<>>
             /\ IsDigit(f[1])
             /\ ~IsDigit(f[Len(f)])) => last.err = "SyntaxError"

\* C9: a token that is just one of the arguments of a value-bearing option
\* (integer, decimal, text or manual), with nothing after it, fails with
\* MissingValueError when it is assigned to the option.
C9_EmptyRemainderIsMissingValue ==
    \A i \in OptionIds : (options[i].kind # "switch" /\ ParsedFor(i)) =>
        (last.tok \in ArgumentsOf(i) => last.err = "MissingValueError")

\* C10: a parse call hands a token to a value-bearing option if and only if
\* the token starts with one of the option's arguments and is longer than
\* it; a token equal to an argument is not a match.
C10_MatchNeedsRemainder ==
    \A i \in OptionIds : options[i].kind # "switch" =>
        \A t \in tokens : (last.op = "parse" /\ last.tok = t) =>
            (last.opt = i <=> \E a \in ArgumentsOf(i) : StartsWithMore(t, a))

\* C10, amended: in the Tuple and Basic variants a parse call hands a token
\* to a value-bearing option if and only if the token starts with one of
\* the option's arguments, the token equal to an argument included; only
\* the Legacy variant asks for a longer token and leaves the token equal to
\* an argument unmatched.
C10_MatchByVariant ==
    \A i \in OptionIds : options[i].kind # "switch" =>
        \A t \in tokens : (last.op = "parse" /\ last.tok = t) =>
            (last.opt = i <=> \E a \in ArgumentsOf(i) :
                                IF variant = "Legacy" THEN StartsWithMore(t, a)
                                ELSE StartsWith(t, a))

\* A Basic parser has just taken the token equal to an argument of an
\* integer option as that option's, and failed for the missing value.
C10_Witness ==
    /\ variant = "Basic"
    /\ last.op = "parse"
    /\ last.opt # 0
    /\ options[last.opt].kind = "int"
    /\ last.tok \in ArgumentsOf(last.opt)
    /\ last.err = "MissingValueError"

\* C11: a parse call hands a token to a switch option if and only if the
\* token is equal to one of the option's arguments; an argument followed by
\* more characters ("--helpx") and an argument cut short are not matches.
C11_SwitchMatchesExactly ==
    \A i \in OptionIds : options[i].kind = "switch" =>
        \A t \in tokens : (last.op = "parse" /\ last.tok = t) =>
            (last.opt = i <=> t \in ArgumentsOf(i))

\* A parse call has just refused the token "--helpx" to the switch --help.
C11_Witness ==
    /\ options[1].kind = "switch"
    /\ last.op = "parse"
    /\ last.tok = ArgHelpLong \o <<"x">>
    /\ last.opt = 0
    /\ last.err = "UnknownArgumentError"
    /\ ~seen[1]

\* Some option declares an argument that the token t is (a switch) or
\* starts with (an option with a value).
Spelled(t) ==
    \E i \in OptionIds : \E a \in ArgumentsOf(i) :
        IF options[i].kind = "switch" THEN t = a ELSE StartsWith(t, a)

\* C12: a parse call that comes to a token which no option declares an
\* argument for fails with UnknownArgumentError at that token, whether the
\* token is the first of the list or follows tokens that were assigned.
C12_UnknownTokenFails ==
    \A u \in tokens : ~Spelled(u) =>
        /\ (last.op = "parse" /\ last.tok = u)
                => last.err = "UnknownArgumentError" /\ last.opt = 0
        /\ ParseNow(<<u>>).err = "UnknownArgumentError"
        /\ ParseNow(<<u>>).tok = u
        /\ \A t \in tokens : ParseNow(<<t>>).err = "" =>
                /\ ParseNow(<<t, u>>).err = "UnknownArgumentError"
                /\ ParseNow(<<t, u>>).tok = u

\* The first parse call has just failed at the token "-e", which no option
\* declares, after it assigned the token before it.
C12_Witness ==
    /\ nops = 1
    /\ last.op = "parse"
    /\ last.err = "UnknownArgumentError"
    /\ last.tok = <<"-", "e">>
    /\ \E i \in OptionIds : assigned[i]

\* What parsePositional on the options as they are now makes of args.
PositionalNow(args) == PositionalLoop(options, Now, args, 1, <<>>)

\* C13: parsePositional never fails with UnknownArgumentError; a call that
\* succeeds returns exactly the tokens that no option declares an argument
\* for, in the order they were given and without the program path, and
\* every token it does not return went to an option, which is assigned.
C13_PositionalReturnsUnmatched ==
    /\ last.op = "parsePositional" =>
            /\ last.err # "UnknownArgumentError"
            /\ \A k \in 1..Len(returned) : ~Spelled(returned[k])
            /\ (execPath.has /\ execPath.path \notin tokens)
                    => \A k \in 1..Len(returned) : returned[k] # execPath.path
    /\ \A l \in ArgLists(MaxArgs) : With(PositionalNow(l), LAMBDA call :
            /\ call.err # "UnknownArgumentError"
            /\ call.err = "" =>
                    /\ call.pos = SelectSeq(l, LAMBDA t : ~Spelled(t))
                    /\ \A k \in 1..Len(l) : Spelled(l[k]) =>
                            \E i \in OptionIds :
                                /\ Matches(variant, options[i], l[k])
                                /\ call.st.assigned[i])

\* parsePositional has just assigned one token of its list and returned the
\* other one, which no option declares.
C13_Witness ==
    /\ last.op = "parsePositional"
    /\ last.err = ""
    /\ nops = 1
    /\ execPath.has
    /\ returned = << <<"f">> >>
    /\ \E i \in OptionIds : assigned[i]

\* parsePositional has just returned two tokens in the order it was given
\* them.
C13_WitnessOrder ==
    /\ last.op = "parsePositional"
    /\ returned = << <<"f">>, <<"-", "e">> >>

\* The values of firstArgumentIsExecutablePath a call of parse can have.
CallFlags ==
    {flag \in BOOLEAN : /\ (variant = "Legacy" => flag)
                         /\ (variant = "Basic" => (flag = pathFlag))}

\* What a parse call with the flag makes of args on the parser as it is now.
ParseWith(flag, args) == parse(variant, options, Now, execPath, flag, args)

\* C14: with the flag set, parse of an empty list fails with
\* EmptyArgumentListError, and parse of a list stores the first token as the
\* program path and does with the options exactly what the loop does with
\* the tokens after it, even when the first token reads like an argument of
\* an option; with the flag not set no path is stored and the first token
\* is dispatched with the others.
C14_ProgramPathNotDispatched ==
    \A flag \in CallFlags :
        /\ (flag /\ variant # "Legacy") =>
                /\ ParseWith(flag, <<>>).err = "EmptyArgumentListError"
                /\ ParseWith(flag, <<>>).st = Now
        /\ \A p \in {SpellingPath(options[1])}, l \in ArgLists(1) :
            With(ParseWith(flag, <<p>> \o l), LAMBDA call :
            With(ParseNow(IF flag THEN l ELSE <<p>> \o l), LAMBDA loop :
                /\ call.err # "EmptyArgumentListError"
                /\ call.path = IF flag THEN [has |-> TRUE, path |-> p]
                               ELSE [has |-> FALSE, path |-> <<>>]
                /\ \A f \in {"st", "err", "opt", "tok"} : call[f] = loop[f]))

\* The first parse call has just stored a program path that reads like a
\* token of the option, and has left the option as it was constructed.
C14_Witness ==
    /\ nops = 1
    /\ last.op = "parse"
    /\ last.err = ""
    /\ execPath.has
    /\ execPath.path = SpellingPath(options[1])
    /\ Matches(variant, options[1], execPath.path)
    /\ ~seen[1]
    /\ value[1] = options[1].default

\* C15: parse stops at the first token that fails and reports its error.
\* A call whose first token fails ends as the call with that token alone
\* does, whatever token follows: the token after it is not dispatched.  A
\* call whose second token fails reports it at that token, and leaves every
\* option but the failing one as the first token left it, the value the
\* first token assigned included.
C15_StopsAtFirstFailure ==
    \A t1 \in tokens : With(ParseNow(<<t1>>), LAMBDA first :
        \A t2 \in tokens : With(ParseNow(<<t1, t2>>), LAMBDA both :
            /\ first.err # "" =>
                    \A f \in {"st", "err", "opt", "tok"} : both[f] = first[f]
            /\ (first.err = "" /\ both.err # "") =>
                    /\ both.tok = t2
                    /\ both.err = ParseLoop(variant, options, first.st, <<t2>>, 1).err
                    /\ \A i \in OptionIds : (i # both.opt \/ i = first.opt) =>
                            /\ both.st.value[i] = first.st.value[i]
                            /\ both.st.assigned[i] = first.st.assigned[i]))

\* The first parse call has just failed at its second token: the option the
\* first token went to is assigned, the third option is as constructed.
C15_Witness ==
    /\ nops = 1
    /\ last.op = "parse"
    /\ last.err = "SyntaxError"
    /\ \E i \in OptionIds : i # last.opt /\ assigned[i]
    /\ \E j \in OptionIds :
            j # last.opt /\ ~seen[j] /\ ~assigned[j] /\ value[j] = options[j].default

\* C16: after reset every option has its seen flag false and holds its
\* declared default, as in the parser just constructed; a second reset
\* changes nothing.
C16_ResetRestoresDefaults ==
    last.op = "reset" =>
        \A i \in OptionIds :
            /\ ~seen[i]
            /\ ~assigned[i]
            /\ value[i] = options[i].default

\* The options of the kind whose getter is op that are called name.
OwnKind(op, name) ==
    {i \in OptionIds : GetterOf[options[i].kind] = op /\ options[i].name = name}

\* C17: getBool, getInt, getFloat and getText called with a name return the
\* current value of the first option of the getter's own kind that has this
\* name, and fail with NameNotFoundError if and only if no option of that
\* kind has it, a name declared only for another kind included.
C17_GetterReadsOwnKind ==
    last.op \in {GetterOf[k] : k \in DOMAIN GetterOf} =>
        /\ last.err = "NameNotFoundError" <=> OwnKind(last.op, last.tok[1]) = {}
        /\ last.err \in {"", "NameNotFoundError"}
        /\ last.err = "" =>
                /\ last.opt \in OwnKind(last.op, last.tok[1])
                /\ \A j \in OwnKind(last.op, last.tok[1]) : last.opt <= j
                /\ returned = value[last.opt]

\* C18: a text option stores the fragment that follows its argument exactly
\* as it is written, and the conversion never fails, the empty fragment
\* included.
C18_TextStoredVerbatim ==
    \A i \in OptionIds : (options[i].kind = "text" /\ ParsedFor(i)) =>
        \A a \in ArgumentsOf(i), f \in WideFragments(options[i]) :
            last.tok = a \o f => last.err = "" /\ value[i] = f

\* C18, amended: a text option stores a fragment that is not empty exactly
\* as it is written, white space included, and the conversion of it never
\* fails; the empty fragment is stored as the empty text by the Tuple
\* variant, and is refused with MissingValueError, the value left as it
\* was, by the Basic variant.
C18_TextVerbatimByVariant ==
    \A i \in OptionIds : (options[i].kind = "text" /\ ParsedFor(i)) =>
        \A a \in ArgumentsOf(i), f \in WideFragments(options[i]) :
            last.tok = a \o f =>
                IF f = <<>> /\ variant = "Basic"
                THEN last.err = "MissingValueError" /\ ~assigned[i]
                ELSE last.err = "" /\ value[i] = f /\ assigned[i]

\* A Basic parser has just refused the token of a text option that ends
\* with the argument.
C18_Witness ==
    /\ variant = "Basic"
    /\ last.op = "parse"
    /\ last.opt # 0
    /\ options[last.opt].kind = "text"
    /\ last.tok \in ArgumentsOf(last.opt)
    /\ last.err = "MissingValueError"
    /\ value[last.opt] = options[last.opt].default

\* A Tuple parser has just stored the empty text.
C18_WitnessEmptyStored ==
    /\ variant = "Tuple"
    /\ last.op = "parse"
    /\ last.opt # 0
    /\ options[last.opt].kind = "text"
    /\ last.tok \in ArgumentsOf(last.opt)
    /\ last.err = ""
    /\ value[last.opt] = <<>>

\* The first character of the fragment f after its leading white space is
\* a minus sign.
LooksNegative(f) ==
    /\ RunLength(IsSpace, f, 1) < Len(f)
    /\ f[RunLength(IsSpace, f, 1) + 1] = "-"

\* C19: a fragment whose first character after the white space is a minus
\* sign, given to an integer option of an unsigned type, fails with
\* RangeError and nothing is stored: the option is not assigned a wrapped
\* value.
C19_UnsignedRejectsMinus ==
    \A i \in OptionIds :
        (options[i].kind = "int" /\ ~IsSigned(options[i].itype) /\ ParsedFor(i)) =>
            \A a \in ArgumentsOf(i), f \in WideFragments(options[i]) :
                (last.tok = a \o f /\ LooksNegative(f)) =>
                    last.err = "RangeError" /\ ~assigned[i]

\* C20: for every integer n in the range of the type of an integer option,
\* the token made of an argument of the option and the decimal string of n
\* is assigned without error and the option then holds exactly n.
C20_DecimalRoundTrip ==
    \A i \in OptionIds : (options[i].kind = "int" /\ ParsedFor(i)) =>
        \A a \in ArgumentsOf(i) :
            \A n \in NumericMin(options[i].itype)..NumericMax(options[i].itype) :
                last.tok = a \o to_string(n) => last.err = "" /\ value[i] = n

\* C21: a decimal literal that is consumed whole fails with RangeError
\* exactly when its value lies beyond the largest value of the destination
\* type, on either side of zero; every other one, zero and the negative
\* ones included, is assigned without error and stored.
C21_DecimalRangeIsTheTypeRange ==
    \A i \in OptionIds : (options[i].kind = "float" /\ ParsedFor(i)) =>
        \A a \in ArgumentsOf(i) :
            \A t \in {-5, 0, 5, 15, FloatMaxTenths, FloatMaxTenths + 1} :
                last.tok = a \o TenthsToString(t) =>
                    IF t > FloatMaxTenths \/ t < -FloatMaxTenths
                    THEN last.err = "RangeError"
                    ELSE last.err = "" /\ value[i] = t

\* C22: a switch holds its default while its seen flag is false and its
\* value-when-set once a parse call has handed it a token; and the parser of
\* the switch help and the required integer exit, just constructed and
\* given the list <<"-e=5">> without a program path, parses without error,
\* holds help = false and exit = 5, and then passes validate.
C22_SwitchDefaultUntilSeen ==
    /\ \A i \in OptionIds : options[i].kind = "switch" =>
            /\ ~seen[i] => value[i] = options[i].default
            /\ (ParsedFor(i) /\ last.err = "") => value[i] = options[i].valueWhenSet
    /\ (last.op = "init" /\ FALSE \in CallFlags) =>
            With(ParseWith(FALSE, <<ArgExit \o <<"5">>>>), LAMBDA call :
                /\ call.err = ""
                /\ \A i \in OptionIds :
                        /\ options[i].name = "help" => call.st.value[i] = FALSE
                        /\ options[i].name = "exit" => call.st.value[i] = 5
                /\ variant # "Legacy" =>
                        checkValidityFrom(variant, options, call.st.value, call.st.seen, 1).err = "")

\* C23: a token handed to a manual option has the function of the option
\* called on exactly what follows the argument: when the function returns,
\* the option is assigned what it returned; when it throws, parse fails
\* with the function's error at that option and the option is not assigned.
C23_ConverterGetsTheFragment ==
    \A i \in OptionIds : (options[i].kind = "manual" /\ ParsedFor(i)) =>
        \A a \in ArgumentsOf(i), f \in WideFragments(options[i]) :
            last.tok = a \o f =>
                IF assignerFunctor(f).err = ""
                THEN last.err = "" /\ value[i] = assignerFunctor(f).val /\ assigned[i]
                ELSE last.err = assignerFunctor(f).err /\ ~assigned[i]

\* The token "-p=a;1" has just been assigned to the option person as the
\* pair its function makes of "a;1".
C23_Witness ==
    /\ last.op = "parse"
    /\ last.opt # 0
    /\ options[last.opt].kind = "manual"
    /\ last.tok = ArgPerson \o <<"a", ";", "1">>
    /\ last.err = ""
    /\ value[last.opt] = << <<"a">>, 1 >>

\* The function of person has just thrown for a fragment without a
\* semicolon, and parse with it.
C23_WitnessThrows ==
    /\ last.op = "parse"
    /\ last.opt # 0
    /\ options[last.opt].kind = "manual"
    /\ last.tok = ArgPerson \o <<"a">>
    /\ last.err = "CustomConversionError"

\* Option i comes before option j in the order a token is offered to the
\* options: tuple order, or the vectors of switches, integers, decimals and
\* texts one after the other, each in declaration order.
Earlier(i, j) ==
    IF variant = "Tuple" THEN i < j
    ELSE \E ki, kj \in 1..Len(KindOrder) :
            /\ options[i].kind = KindOrder[ki]
            /\ options[j].kind = KindOrder[kj]
            /\ (ki < kj \/ (ki = kj /\ i < j))

\* The options that match the token t.
Matching(t) == {j \in OptionIds : Matches(variant, options[j], t)}

\* C24: the token a parse call ends at went to the first option, in scan
\* order, that matches it, and to no option when none matches; and one
\* token leaves the value and the seen flag of every option but the one it
\* went to as they were.
C24_FirstMatchTakesTheToken ==
    \A t \in tokens :
        /\ (last.op = "parse" /\ last.tok = t) =>
                IF Matching(t) = {} THEN last.opt = 0
                ELSE /\ last.opt \in Matching(t)
                     /\ \A j \in Matching(t) \ {last.opt} : Earlier(last.opt, j)
        /\ With(ParseNow(<<t>>), LAMBDA call :
                \A j \in OptionIds : j # call.opt =>
                    /\ call.st.value[j] = value[j]
                    /\ call.st.seen[j] = seen[j]
                    /\ call.st.assigned[j] = assigned[j])

\* The first parse call has just assigned a token that both options match
\* to one of them; the other one is as it was constructed.
C24_Witness ==
    /\ nops = 1
    /\ last.op = "parse"
    /\ last.err = ""
    /\ Cardinality(Matching(last.tok)) = 2
    /\ assigned[last.opt]
    /\ \E j \in Matching(last.tok) :
            j # last.opt /\ ~seen[j] /\ value[j] = options[j].default

\* The check of option j by validate would fail as the options are now.
FailsCheck(j) ==
    \/ options[j].required /\ ~seen[j]
    \/ ~ValidityChecker(options[j].validityChecker, value[j])

\* C25: validate succeeds exactly when the check of no option fails;
\* otherwise it reports the first option, in scan order, whose check fails,
\* and that option's error only: RequiredOptionError when the option is
\* required and not seen, whatever its value, and InvalidValueError else.
C25_ValidateStopsAtFirstFailure ==
    last.op = "validate" =>
        /\ last.err = "" <=> \A j \in OptionIds : ~FailsCheck(j)
        /\ last.err # "" =>
                /\ FailsCheck(last.opt)
                /\ \A j \in OptionIds : (FailsCheck(j) /\ j # last.opt) => Earlier(last.opt, j)
                /\ last.err = IF options[last.opt].required /\ ~seen[last.opt]
                              THEN "RequiredOptionError" ELSE "InvalidValueError"

\* validate has just reported, of two options whose checks fail, the first
\* in the order of the vectors, which is the second one declared: a
\* required option that is not seen; the other holds a value its validity
\* checker rejects.
C25_Witness ==
    /\ variant = "Basic"
    /\ last.op = "validate"
    /\ last.err = "RequiredOptionError"
    /\ last.opt = 2
    /\ FailsCheck(1)
    /\ ~ValidityChecker(options[1].validityChecker, value[1])

\* validate has just reported RequiredOptionError for a required option
\* that is not seen and whose value its validity checker rejects.
C25_WitnessRequiredFirst ==
    /\ last.op = "validate"
    /\ last.err = "RequiredOptionError"
    /\ ~seen[last.opt]
    /\ ~ValidityChecker(options[last.opt].validityChecker, value[last.opt])

\* The outputs of the options of a parser just constructed.
Fresh ==
    OptState([i \in OptionIds |-> options[i].default],
             [i \in OptionIds |-> FALSE],
             [i \in OptionIds |-> FALSE])

\* C26: after reset, whatever calls came before it, parsing a token list
\* ends as parsing the same list with the parser just constructed does:
\* with the same error at the same token, or with the same value and seen
\* flag for every option.
C26_ResetThenParseAsFresh ==
    last.op = "reset" =>
        \A l \in ArgLists(MaxArgs) :
            With(ParseNow(l), LAMBDA call :
            With(ParseLoop(variant, options, Fresh, l, 1), LAMBDA fresh :
                /\ call.err = fresh.err
                /\ call.tok = fresh.tok
                /\ call.st.value = fresh.st.value
                /\ call.st.seen = fresh.st.seen))

\* C27: when validate has returned without error, every required option
\* has its seen flag set and every seen integer, decimal or text option
\* holds a value its validity checker accepts.
C27_ValidatedMeansChecked ==
    (last.op = "validate" /\ last.err = "") =>
        \A i \in OptionIds :
            /\ options[i].required => seen[i]
            /\ (seen[i] /\ options[i].kind \in {"int", "float", "text"})
                    => ValidityChecker(options[i].validityChecker, value[i])

\* validate has just returned without error for a parser whose required
\* exit and whose cake, with its checker, were both assigned.
C27_Witness ==
    /\ last.op = "validate"
    /\ last.err = ""
    /\ \E i \in OptionIds : options[i].required /\ seen[i] /\ assigned[i]
    /\ \E i \in OptionIds :
            /\ options[i].validityChecker = "unit"
            /\ seen[i]
            /\ assigned[i]

\* C28: a call of validate, whether it reports an error or not, leaves the
\* value and the seen flag of every option and the program path as they
\* were; and a validate that follows a validate reports what that one did.
C28_ValidateChangesNothing ==
    [][last'.op = "validate" =>
            /\ UNCHANGED <<value, seen, assigned, execPath, options, pathFlag>>
            /\ last.op = "validate" => (last'.err = last.err /\ last'.opt = last.opt)]_vars

\* validate has just reported an error for a parser that holds a program
\* path and an assigned option.
C28_Witness ==
    /\ last.op = "validate"
    /\ last.err # ""
    /\ execPath.has
    /\ execPath.path = ProgramPath
    /\ \E i \in OptionIds : assigned[i] /\ seen[i]

\* The tokens of l that some option matches, in the order of l.
OptionTokens(l) == SelectSeq(l, LAMBDA t : Matching(t) # {})

\* C29: parsePositional on a token list leaves the options as parse does
\* on the list without its tokens that no option matches: the same values,
\* seen flags and error; when every token of the list matches an option, a
\* parsePositional that succeeds returns the empty list.
C29_PositionalAgreesWithParse ==
    \A l \in ArgLists(MaxArgs) :
        With(PositionalNow(l), LAMBDA permissive :
        With(ParseNow(OptionTokens(l)), LAMBDA strict :
            /\ permissive.err = strict.err
            /\ permissive.err # "" => permissive.tok = strict.tok
            /\ permissive.opt = strict.opt \/ (permissive.err = "" /\ permissive.opt = 0)
            /\ permissive.st = strict.st
            /\ (OptionTokens(l) = l /\ permissive.err = "") => permissive.pos = <<>>))

\* parsePositional has just assigned the token after one that no option
\* matches, and returned that one.
C29_Witness ==
    /\ last.op = "parsePositional"
    /\ last.err = ""
    /\ nops = 1
    /\ last.opt # 0
    /\ assigned[last.opt]
    /\ Len(returned) = 1
    /\ Matching(returned[1]) = {}

\* The first option, in scan order, that matches the token t.
FirstMatching(t) ==
    CHOOSE i \in Matching(t) : \A j \in Matching(t) \ {i} : Earlier(i, j)

\* C30: a token whose first matching option, in scan order, has its seen
\* flag set makes parse fail with RepeatedOptionError at that option, also
\* when an option after it matches the token and is not seen; the call
\* leaves every option as it was.
C30_NoFallThroughPastSeen ==
    \A t \in tokens : Matching(t) # {} =>
        /\ seen[FirstMatching(t)] =>
                With(ParseNow(<<t>>), LAMBDA call :
                    /\ call.err = "RepeatedOptionError"
                    /\ call.opt = FirstMatching(t)
                    /\ call.st = Now)
        /\ (last.op = "parse" /\ last.tok = t /\ last.err = "RepeatedOptionError")
                => last.opt = FirstMatching(t)

\* A parse call has just failed with RepeatedOptionError at the first of
\* two options that match its token; the second one is as constructed.
C30_Witness ==
    /\ last.op = "parse"
    /\ last.err = "RepeatedOptionError"
    /\ Cardinality(Matching(last.tok)) = 2
    /\ \E j \in Matching(last.tok) :
            /\ j # last.opt
            /\ ~seen[j]
            /\ ~assigned[j]
            /\ value[j] = options[j].default

====
